---- MODULE Spec2Model ----
(***************************************************************************)
(* Model of the data pipeline of src/src/App.tsx (Sabor em Dados): the     *)
(* Papa Parse callbacks of handleFileChange, the React state they set      *)
(* (rows, selectedDia, chartType) and the memoised views computed from it  *)
(* (diasDisponiveis, dadosPratosDia, piePratosData, dadosNivelMovimento).  *)
(*                                                                         *)
(* Strings are sequences of symbols: " " is a whitespace character, a      *)
(* one-character symbol such as "1", "." or "-" is that character, and a   *)
(* longer symbol such as "segunda" is that run of non-blank characters.    *)
(* JavaScript numbers are records [nan, v]: v counts units of 1/Den, so    *)
(* that rounding to 3 decimals is a computation and not the identity.      *)
(***************************************************************************)
EXTENDS Integers, Sequences, FiniteSets, TLC

VARIABLES rows, selectedDia, chartType, pending, lastOp,
          diasDisponiveis, dadosPratosDia, piePratosData, dadosNivelMovimento

vars == <<rows, selectedDia, chartType, pending, lastOp,
          diasDisponiveis, dadosPratosDia, piePratosData, dadosNivelMovimento>>

(***************************************************************************)
(* Bounds of the model.                                                    *)
(***************************************************************************)
MaxPending == 2
MaxFileLen == 2
MaxViewLen == 3
MaxLongLen == 12
MaxPickerLen == 3

(***************************************************************************)
(* Strings.                                                                *)
(***************************************************************************)
WS == " "
EmptyStr == << >>

Range(s) == {s[i] : i \in 1..Len(s)}

RECURSIVE TrimStart(_)
TrimStart(s) ==
    IF s # << >> /\ Head(s) = WS THEN TrimStart(Tail(s)) ELSE s

RECURSIVE TrimEnd(_)
TrimEnd(s) ==
    IF s # << >> /\ s[Len(s)] = WS THEN TrimEnd(SubSeq(s, 1, Len(s) - 1)) ELSE s

\* String.prototype.trim
Trim(s) == TrimEnd(TrimStart(s))

(***************************************************************************)
(* Numbers.                                                                *)
(***************************************************************************)
FixedDigits == 3

RECURSIVE Pow10(_)
Pow10(n) == IF n = 0 THEN 1 ELSE 10 * Pow10(n - 1)

\* one more decimal than toFixed keeps, so that rounding has something to do
FracDigits == FixedDigits + 1
Den == Pow10(FracDigits)

Num(v) == [nan |-> FALSE, v |-> v]
NaN == [nan |-> TRUE, v |-> 0]

Add(a, b) == IF a.nan \/ b.nan THEN NaN ELSE Num(a.v + b.v)
Sub(a, b) == IF a.nan \/ b.nan THEN NaN ELSE Num(a.v - b.v)

Digits == {"0", "1", "2", "3", "4", "5", "6", "7", "8", "9"}

DigitVal(c) ==
    CASE c = "0" -> 0 [] c = "1" -> 1 [] c = "2" -> 2 [] c = "3" -> 3
      [] c = "4" -> 4 [] c = "5" -> 5 [] c = "6" -> 6 [] c = "7" -> 7
      [] c = "8" -> 8 [] c = "9" -> 9

IsDigits(s) == \A i \in 1..Len(s) : s[i] \in Digits

RECURSIVE DigitsVal(_)
DigitsVal(s) ==
    IF s = << >> THEN 0
    ELSE 10 * DigitsVal(SubSeq(s, 1, Len(s) - 1)) + DigitVal(s[Len(s)])

\* an unsigned decimal literal: digits, optionally a "." and more digits.
\* The inputs carry at most FracDigits decimals and no exponent, so every
\* literal has an exact value in units of 1/Den.
UnsignedLiteral(s) ==
    LET dots == {i \in 1..Len(s) : s[i] = "."}
        dot  == IF dots = {} THEN Len(s) + 1 ELSE CHOOSE i \in dots : TRUE
        int  == SubSeq(s, 1, dot - 1)
        frac == SubSeq(s, dot + 1, Len(s))
    IN  IF Cardinality(dots) > 1 \/ ~IsDigits(int) \/ ~IsDigits(frac)
           \/ (int = << >> /\ frac = << >>) \/ Len(frac) > FracDigits
        THEN NaN
        ELSE Num(DigitsVal(int) * Den + DigitsVal(frac) * Pow10(FracDigits - Len(frac)))

\* Number(string): blanks are trimmed, the empty string is 0, a decimal
\* literal is its value, anything else is NaN
StringToNumber(s) ==
    LET t == Trim(s)
    IN  IF t = << >> THEN Num(0)
        ELSE IF Head(t) = "-"
             THEN LET u == UnsignedLiteral(Tail(t))
                  IN  IF u.nan THEN NaN ELSE Num(0 - u.v)
        ELSE IF Head(t) = "+" THEN UnsignedLiteral(Tail(t))
        ELSE UnsignedLiteral(t)

\* one thousandth, in units of 1/Den
Milli == Den \div Pow10(FixedDigits)

\* Number.prototype.toFixed(3): the decimal string with 3 decimals nearest
\* to x, the larger in magnitude on a tie (x is exact here); "NaN" for NaN.
\* The string is kept as its count of thousandths.
ToFixed(x) ==
    IF x.nan THEN [nan |-> TRUE, milli |-> 0]
    ELSE LET a == IF x.v < 0 THEN 0 - x.v ELSE x.v
             n == (a + Milli \div 2) \div Milli
         IN  [nan |-> FALSE, milli |-> IF x.v < 0 THEN 0 - n ELSE n]

\* Number(x.toFixed(3)) reads the string back
FixedToNumber(f) ==
    IF f.nan THEN NaN ELSE Num(f.milli * Milli)

(***************************************************************************)
(* CsvRow: a raw record is a function from the field names it carries to   *)
(* strings; a field the parser did not produce is outside its domain.      *)
(***************************************************************************)
Fields == {"prato", "dia_semana", "qtd_prevista_media", "qtd_vendida",
           "nivel_movimento_prato", "nivel_movimento"}

\* a value that is neither undefined nor the empty string
Truthy(r, f) == f \in DOMAIN r /\ r[f] # EmptyStr

\* r.f ?? "" for a string field
OrEmpty(r, f) == IF f \in DOMAIN r THEN r[f] ELSE EmptyStr

\* .filter((r) => r.prato && r.dia_semana)
KeepRow(r) == Truthy(r, "prato") /\ Truthy(r, "dia_semana")

\* Number(r.qtd_prevista_media ?? r.qtd_vendida ?? 0)
qtdBruta(r) ==
    IF "qtd_prevista_media" \in DOMAIN r THEN StringToNumber(r["qtd_prevista_media"])
    ELSE IF "qtd_vendida" \in DOMAIN r THEN StringToNumber(r["qtd_vendida"])
    ELSE Num(0)

\* a slip: the generic field read first
NivelBrutoGeneral(r) ==
    IF Truthy(r, "nivel_movimento") THEN r["nivel_movimento"]
    ELSE IF Truthy(r, "nivel_movimento_prato") THEN r["nivel_movimento_prato"]
    ELSE EmptyStr

\* (r.nivel_movimento_prato || r.nivel_movimento || "")
NivelBruto(r) ==
    IF Truthy(r, "nivel_movimento_prato") THEN r["nivel_movimento_prato"]
    ELSE IF Truthy(r, "nivel_movimento") THEN r["nivel_movimento"]
    ELSE EmptyStr

\* the .map callback: one Row of the application state
MapRow(r) ==
    [prato |-> Trim(OrEmpty(r, "prato")),
     dia_semana |-> Trim(OrEmpty(r, "dia_semana")),
     qtd_prevista_media |-> FixedToNumber(ToFixed(qtdBruta(r))),
     nivel_movimento_prato |-> Trim(NivelBruto(r))]

\* a slip: the records collected in reverse
RECURSIVE MapRowsReversed(_)
MapRowsReversed(s) ==
    IF s = << >> THEN << >> ELSE MapRowsReversed(Tail(s)) \o <<MapRow(Head(s))>>

RECURSIVE MapRows(_)
MapRows(s) ==
    IF s = << >> THEN << >> ELSE <<MapRow(Head(s))>> \o MapRows(Tail(s))

\* const data = (results.data ?? []).filter(...).map(...)
NormalizeData(data) == MapRows(SelectSeq(data, KeepRow))

(***************************************************************************)
(* Automatic selection of the day.                                         *)
(***************************************************************************)
\* Object.keys(weekIndexes), in insertion order
WeekKeys == << <<"segunda">>, <<"terça">>, <<"quarta">>, <<"quinta">>,
               <<"sexta">>, <<"sábado">> >>

\* the two nested loops: the first key, in the order of WeekKeys, that some
\* record of data carries; prev when no key matches
\* a slip: the first record, in file order, that carries any key
ScanKeysFileOrder(keys, data, prev) ==
    LET hits == {i \in 1..Len(data) : data[i].dia_semana \in Range(keys)}
    IN  IF hits # {}
        THEN data[CHOOSE i \in hits : \A j \in hits : i <= j].dia_semana
        ELSE prev

RECURSIVE ScanKeys(_, _, _)
ScanKeys(keys, data, prev) ==
    IF keys = << >> THEN prev
    ELSE LET hits == {i \in 1..Len(data) : data[i].dia_semana = Head(keys)}
         IN  IF hits # {}
             THEN data[CHOOSE i \in hits : \A j \in hits : i <= j].dia_semana
             ELSE ScanKeys(Tail(keys), data, prev)

\* if (data.length > 0) { ... setSelectedDia(d.dia_semana) ... }
AutoSelect(data, prev) ==
    IF Len(data) > 0 THEN ScanKeys(WeekKeys, data, prev) ELSE prev

(***************************************************************************)
(* Array.prototype.sort.  The sort is stable; a comparator result of NaN   *)
(* counts as 0.  When the comparator is not a consistent comparison for    *)
(* the elements the order of the result is implementation-defined: any     *)
(* permutation of the elements.                                            *)
(***************************************************************************)
CountIn(s, e) == Cardinality({i \in 1..Len(s) : s[i] = e})

SeqPermutations(s) ==
    {t \in [1..Len(s) -> Range(s)] : \A e \in Range(s) : CountIn(t, e) = CountIn(s, e)}

\* the comparator's result as the sort reads it: NaN is taken as +0
SortCompare(x) == IF x.nan THEN 0 ELSE x.v

\* (a, b) => b.qtd_prevista_media - a.qtd_prevista_media
ByQtdDesc(a, b) == SortCompare(Sub(b.qtd_prevista_media, a.qtd_prevista_media))

NaoDefinido == <<"não", " ", "definido">>

ordem == << <<"baixo">>, <<"médio">>, <<"alto">>, NaoDefinido >>

\* a slip: a level outside ordem ranked after all of ordem
IndexOfOrdemLast(nivel) ==
    LET at == {i \in 1..Len(ordem) : ordem[i] = nivel}
    IN  IF at = {} THEN Len(ordem) ELSE (CHOOSE i \in at : TRUE) - 1

\* ordem.indexOf(nivel), from 0, -1 when absent
IndexOfOrdem(nivel) ==
    LET at == {i \in 1..Len(ordem) : ordem[i] = nivel}
    IN  IF at = {} THEN -1 ELSE (CHOOSE i \in at : TRUE) - 1

\* (a, b) => ordem.indexOf(a.nivel) - ordem.indexOf(b.nivel)
ByOrdem(a, b) == IndexOfOrdem(a.nivel) - IndexOfOrdem(b.nivel)

\* weekIndexes[dia]: the rank of a key of weekIndexes; undefined for any
\* other string, and undefined in a subtraction is NaN
WeekIndex(dia) ==
    LET at == {i \in 1..Len(WeekKeys) : WeekKeys[i] = dia}
    IN  IF at = {} THEN NaN ELSE Num((CHOOSE i \in at : TRUE) * Den)

\* (a, b) => weekIndexes[a] - weekIndexes[b]
ByWeek(a, b) == SortCompare(Sub(WeekIndex(a), WeekIndex(b)))

\* the comparator handed to sort: "qtd" for dadosPratosDia, "ordem" for
\* dadosNivelMovimento, "week" for the options of the day <select>
Compare(by, a, b) ==
    IF by = "qtd" THEN ByQtdDesc(a, b)
    ELSE IF by = "ordem" THEN ByOrdem(a, b)
    ELSE ByWeek(a, b)

ConsistentComparator(s, by) ==
    \A a, b, c \in Range(s) :
        /\ (Compare(by, a, b) = 0 /\ Compare(by, b, c) = 0) => Compare(by, a, c) = 0
        /\ (Compare(by, a, b) < 0 /\ Compare(by, b, c) < 0) => Compare(by, a, c) < 0
        /\ (Compare(by, a, b) < 0) <=> (Compare(by, b, a) > 0)

\* the stable sort: an element follows those the comparator puts before it
\* and those it ties with that come earlier in s
StableSort(s, by) ==
    LET n == Len(s)
        rank(i) == 1 + Cardinality({j \in 1..n :
                          Compare(by, s[j], s[i]) < 0 \/ (Compare(by, s[j], s[i]) = 0 /\ j < i)})
    IN  [p \in 1..n |-> s[CHOOSE i \in 1..n : rank(i) = p]]

SortOutcomes(s, by) ==
    UNION { IF ConsistentComparator(t, by) THEN {StableSort(t, by)} ELSE SeqPermutations(t) :
              t \in {s} }

(***************************************************************************)
(* The memoised views.                                                     *)
(***************************************************************************)
\* Array.from(new Set(rows.map((r) => r.dia_semana))): first occurrences
DiasDisponiveis(rs) ==
    LET first == {i \in 1..Len(rs) :
                    \A j \in 1..(i - 1) : rs[j].dia_semana # rs[i].dia_semana}
    IN  [p \in 1..Cardinality(first) |->
            rs[CHOOSE i \in first : Cardinality({j \in first : j <= i}) = p].dia_semana]

\* [...diasDisponiveis].sort(...): the orders in which the day <select> can
\* list its options
DiaOptions(dias) == SortOutcomes(dias, "week")

\* dadosPratosDia: the values the memo can take
DadosPratosDia(rs, dia) ==
    IF dia = EmptyStr THEN {<< >>}
    ELSE SortOutcomes(SelectSeq(rs, LAMBDA r : r.dia_semana = dia), "qtd")

MAX_SLICES == 10

RECURSIVE SumQtd(_)
\* outros.reduce((acc, row) => acc + row.qtd_prevista_media, 0)
SumQtd(s) ==
    IF s = << >> THEN Num(0)
    ELSE Add(SumQtd(SubSeq(s, 1, Len(s) - 1)), s[Len(s)].qtd_prevista_media)

\* a slip: one slice short
TopSliceShort(dados) == SubSeq(dados, 1, MAX_SLICES - 1)

\* dadosPratosDia.slice(0, MAX_SLICES)
TopSlice(dados) == SubSeq(dados, 1, MAX_SLICES)

\* a slip: the rest taken one record late
OutrosSliceLate(dados) == SubSeq(dados, MAX_SLICES + 2, Len(dados))

\* dadosPratosDia.slice(MAX_SLICES)
OutrosSlice(dados) == SubSeq(dados, MAX_SLICES + 1, Len(dados))

OutrosPratos(dados, dia) ==
    [prato |-> <<"Outros", " ", "pratos">>,
     dia_semana |-> dia,
     qtd_prevista_media |-> FixedToNumber(ToFixed(SumQtd(OutrosSlice(dados)))),
     nivel_movimento_prato |-> EmptyStr]

PiePratosData(dados, dia) ==
    IF Len(dados) <= MAX_SLICES THEN dados
    ELSE Append(TopSlice(dados), OutrosPratos(dados, dia))

\* a name that a plain object inherits as an accessor: assigning a
\* non-object to contagem["__proto__"] creates no property
ProtoKey == <<"__proto__">>

\* one step of rows.forEach: contagem as its own properties, in insertion
\* order
Contar(contagem, r) ==
    LET nivel == IF r.nivel_movimento_prato # EmptyStr
                 THEN r.nivel_movimento_prato ELSE NaoDefinido
        at == {i \in 1..Len(contagem) : contagem[i].nivel = nivel}
    IN  IF nivel = ProtoKey THEN contagem
        ELSE IF at = {} THEN Append(contagem, [nivel |-> nivel, quantidade |-> 1])
        ELSE [i \in 1..Len(contagem) |->
                IF i \in at
                THEN [nivel |-> nivel, quantidade |-> contagem[i].quantidade + 1]
                ELSE contagem[i]]

RECURSIVE Contagem(_)
\* rows.forEach(...) from an empty object
Contagem(rs) ==
    IF rs = << >> THEN << >>
    ELSE Contar(Contagem(SubSeq(rs, 1, Len(rs) - 1)), rs[Len(rs)])

DadosNivelMovimento(rs) == SortOutcomes(Contagem(rs), "ordem")

(***************************************************************************)
(* The inputs: the raw records a parse can hand to the complete callback.  *)
(***************************************************************************)
\* the raw record with the fields of opts that hold a string
MkRow(opts) ==
    [f \in {g \in DOMAIN opts : opts[g] # {}} |-> CHOOSE v \in opts[f] : TRUE]

Raw(p, d, q) == [prato |-> p, dia_semana |-> d, qtd_prevista_media |-> q]

RawN(p, d, q, n) ==
    [prato |-> p, dia_semana |-> d, qtd_prevista_media |-> q,
     nivel_movimento_prato |-> n]

\* records for the day selection: days out of rank order, a padded day, a
\* day outside weekIndexes, a record without a dish
DayRows ==
    { RawN(<<"Arroz">>, <<"sábado">>, <<"2", ".", "5">>, <<"alto">>),
      RawN(<<"Feijão">>, <<" ", "segunda">>, <<"1", "0">>, <<"baixo">>),
      RawN(<<"Peixe">>, <<"domingo">>, <<"a", "b", "c">>, <<"__proto__">>),
      RawN(<< >>, <<"terça">>, <<"3">>, <<"médio">>) }

\* records for the normalisation: every way a field can be absent, empty,
\* blank, padded or unparsable
PratoOpts == { {}, {<<>>}, {<<" ">>}, {<<"Arroz">>}, {<<" ", "Arroz", " ">>} }
DiaOpts == { {}, {<<>>}, {<<" ">>}, {<<"segunda">>}, {<<"segunda", " ">>} }
QtdOpts == { {}, {<<>>}, {<<"1", "0">>}, {<<"a", "b", "c">>},
             {<<"1", ".", "2", "3", "4", "5">>}, {<<"-", "5">>},
             {<<" ", "4", "5", ".", "2", "3", "7">>} }
VendidaOpts == { {}, {<<"9", "9">>}, {<<"a", "b", "c">>} }

NivelOpts == { {}, {<<>>}, {<<" ">>}, {<<"alto">>}, {<<" ", "alto">>} }
GeralOpts == { {}, {<<>>}, {<<"baixo", " ">>} }

NormRows ==
    { MkRow([prato |-> p, dia_semana |-> d]) : p \in PratoOpts, d \in DiaOpts }
    \cup
    { MkRow([prato |-> {<<"Arroz">>}, dia_semana |-> {<<"segunda">>},
             nivel_movimento_prato |-> n, nivel_movimento |-> g]) :
        n \in NivelOpts, g \in GeralOpts }
    \cup
    { MkRow([prato |-> {<<"Arroz">>}, dia_semana |-> {<<"segunda">>},
             qtd_prevista_media |-> q, qtd_vendida |-> v]) :
        q \in QtdOpts, v \in VendidaOpts }

\* records for the views: ties, NaN, two days, levels in and out of ordem
ViewRows ==
    { RawN(<<"Arroz">>, <<"segunda">>, <<"1", "2", "0", ".", "5">>, <<"alto">>),
      RawN(<<"Frango">>, <<"segunda">>, <<"4", "5", ".", "2", "3", "7">>, <<"alto">>),
      RawN(<<"Salada">>, <<"segunda">>, <<"4", "5", ".", "2", "3", "7">>, <<>>),
      RawN(<<"Feijão">>, <<"segunda">>, <<"a", "b", "c">>, <<"baixo">>),
      RawN(<<"Peixe">>, <<"terça">>, <<"8", "0">>, <<"__proto__">>),
      RawN(<<"Sopa">>, <<"terça">>, <<"8", "0">>, <<"raro">>) }

\* records for the long series of one day: a fixed head of LongHeadLen
\* records followed by every choice of further records
LongA == RawN(<<"Arroz">>, <<"segunda">>, <<"2", ".", "4">>, <<"alto">>)
LongB == RawN(<<"Salada">>, <<"segunda">>, <<"1", ".", "2", "3", "4", "5">>, <<"médio">>)
LongC == RawN(<<"Peixe">>, <<"terça">>, <<"8", "0">>, <<"baixo">>)

LongRows == {LongA, LongB, LongC}
LongHead == <<LongB, LongA, LongA, LongB, LongB, LongA, LongB, LongB, LongA>>
LongHeadLen == Len(LongHead)

SeqsUpTo(S, n) == UNION {[1..k -> S] : k \in 0..n}

DayFiles == SeqsUpTo(DayRows, MaxFileLen)
\* files of no record and of one record
NormFiles == {<< >>} \cup {<<r>> : r \in NormRows}
\* files for the day <select>: days in and out of weekIndexes in any order
PickerFiles == SeqsUpTo(DayRows, MaxPickerLen)
ViewFiles ==
    SeqsUpTo(ViewRows, MaxViewLen)
    \cup PickerFiles
    \cup {LongHead \o f : f \in SeqsUpTo(LongRows, MaxLongLen - LongHeadLen)}

\* what Papa Parse hands to complete: the records, and whether it reported
\* row errors in results.errors
ResultsOf(files) == [data : files, errors : BOOLEAN]

(***************************************************************************)
(* State and actions.                                                      *)
(***************************************************************************)
\* lastOp: the handler that ran last ("init" before any, "user" for the
\* handlers of the controls, "complete" and "error" for the callbacks of a
\* parse) and, for complete, the results it was given
Op(kind, data, errors) == [kind |-> kind, data |-> data, errors |-> errors]

\* the memos recomputed by the render that follows a change of state
Render ==
    /\ diasDisponiveis' = DiasDisponiveis(rows')
    /\ dadosPratosDia' \in DadosPratosDia(rows', selectedDia')
    /\ piePratosData' = PiePratosData(dadosPratosDia', selectedDia')
    /\ dadosNivelMovimento' \in DadosNivelMovimento(rows')

Init ==
    /\ rows = << >>
    /\ selectedDia = EmptyStr
    /\ chartType = "bar"
    /\ pending = 0
    /\ lastOp = Op("init", << >>, FALSE)
    /\ diasDisponiveis = << >>
    /\ dadosPratosDia = << >>
    /\ piePratosData = << >>
    /\ dadosNivelMovimento = << >>

\* handleFileChange: without a file nothing happens, with one a parse starts
HandleFileChange(hasFile) ==
    /\ pending < MaxPending
    /\ pending' = IF hasFile THEN pending + 1 ELSE pending
    /\ lastOp' = Op("user", << >>, FALSE)
    /\ UNCHANGED <<rows, selectedDia, chartType, diasDisponiveis, dadosPratosDia,
                   piePratosData, dadosNivelMovimento>>

\* a slip: the records of the file appended to those already held
ParseCompleteAppend(results) ==
    /\ pending > 0
    /\ pending' = pending - 1
    /\ rows' = rows \o NormalizeData(results.data)
    /\ selectedDia' = AutoSelect(rows', selectedDia)
    /\ lastOp' = Op("complete", results.data, results.errors)
    /\ Render
    /\ UNCHANGED chartType

\* the complete callback
ParseComplete(results) ==
    /\ pending > 0
    /\ pending' = pending - 1
    /\ rows' = NormalizeData(results.data)
    /\ selectedDia' = AutoSelect(rows', selectedDia)
    /\ lastOp' = Op("complete", results.data, results.errors)
    /\ Render
    /\ UNCHANGED chartType

\* the error callback
ParseError ==
    /\ pending > 0
    /\ pending' = pending - 1
    /\ lastOp' = Op("error", << >>, TRUE)
    /\ UNCHANGED <<rows, selectedDia, chartType, diasDisponiveis, dadosPratosDia,
                   piePratosData, dadosNivelMovimento>>

\* a slip: the series sorted in place, on rows itself, without the copy
\* that .filter makes
DiaChangeInPlace(dia) ==
    /\ Len(rows) > 0
    /\ dia \in Range(diasDisponiveis)
    /\ dia # selectedDia
    /\ selectedDia \in Range(diasDisponiveis) \/ Len(diasDisponiveis) >= 2
    /\ selectedDia' = dia
    /\ lastOp' = Op("user", << >>, FALSE)
    /\ rows' \in SortOutcomes(rows, "qtd")
    /\ UNCHANGED <<chartType, pending>>
    /\ Render

\* onChange of the day <select>, shown while rows is not empty; it shows
\* selectedDia, or its first option when selectedDia is none of its options
DiaChange(dia) ==
    /\ Len(rows) > 0
    /\ dia \in Range(diasDisponiveis)
    /\ dia # selectedDia
    /\ selectedDia \in Range(diasDisponiveis) \/ Len(diasDisponiveis) >= 2
    /\ selectedDia' = dia
    /\ lastOp' = Op("user", << >>, FALSE)
    /\ UNCHANGED <<rows, chartType, pending>>
    /\ Render

\* onChange of the chart type <select>
ChartTypeChange(type) ==
    /\ Len(rows) > 0
    /\ type # chartType
    /\ chartType' = type
    /\ lastOp' = Op("user", << >>, FALSE)
    /\ UNCHANGED <<rows, selectedDia, pending, diasDisponiveis, dadosPratosDia,
                   piePratosData, dadosNivelMovimento>>

ChartTypes == {"bar", "pie"}

UserAction ==
    \/ \E hasFile \in BOOLEAN : HandleFileChange(hasFile)
    \/ ParseError
    \/ \E dia \in Range(diasDisponiveis) : DiaChange(dia)
    \/ \E type \in ChartTypes : ChartTypeChange(type)

Next ==
    \/ UserAction
    \/ \E results \in ResultsOf(DayFiles) : ParseComplete(results)

Spec == Init /\ [][Next]_vars

NextNorm ==
    \/ \E hasFile \in BOOLEAN : HandleFileChange(hasFile)
    \/ ParseError
    \/ \E type \in ChartTypes : ChartTypeChange(type)
    \/ \E results \in ResultsOf(NormFiles) : ParseComplete(results)

SpecNorm == Init /\ [][NextNorm]_vars

\* the states right after the first load of a file of ViewFiles
InitView ==
    /\ \E results \in ResultsOf(ViewFiles) :
        /\ rows = NormalizeData(results.data)
        /\ lastOp = Op("complete", results.data, results.errors)
    /\ selectedDia = AutoSelect(rows, EmptyStr)
    /\ chartType = "bar"
    /\ pending = 0
    /\ diasDisponiveis = DiasDisponiveis(rows)
    /\ dadosPratosDia \in DadosPratosDia(rows, selectedDia)
    /\ piePratosData = PiePratosData(dadosPratosDia, selectedDia)
    /\ dadosNivelMovimento \in DadosNivelMovimento(rows)

NextView ==
    \/ \E dia \in Range(diasDisponiveis) : DiaChange(dia)
    \/ \E type \in ChartTypes : ChartTypeChange(type)

SpecView == InitView /\ [][NextView]_vars

(***************************************************************************)
(* Properties.                                                             *)
(***************************************************************************)
Loaded == lastOp.kind = "complete"

\* a field that is absent, empty or blank
Blank(r, f) == f \notin DOMAIN r \/ Trim(r[f]) = EmptyStr

HasDishAndWeekday(r) == ~Blank(r, "prato") /\ ~Blank(r, "dia_semana")

\* a string that reads as a number
Parsable(s) == Trim(s) # EmptyStr /\ ~StringToNumber(s).nan

Round3(x) == FixedToNumber(ToFixed(x))

\* C1: every record of the dataset has a dish and a weekday that are not
\* empty after trimming, and a raw record whose dish or weekday is absent,
\* empty or blank produces no record of the dataset.
C1_SkipInvariant ==
    /\ \A i \in 1..Len(rows) :
          Trim(rows[i].prato) # EmptyStr /\ Trim(rows[i].dia_semana) # EmptyStr
    /\ Loaded => Len(rows) = Len(SelectSeq(lastOp.data, HasDishAndWeekday))

\* the quantity C2 asks for, where C2 decides it
QtdDecided(r) ==
    \/ "qtd_prevista_media" \in DOMAIN r /\ Parsable(r["qtd_prevista_media"])
    \/ "qtd_vendida" \in DOMAIN r /\ Parsable(r["qtd_vendida"])
    \/ DOMAIN r \cap {"qtd_prevista_media", "qtd_vendida"} = {}

QtdExpected(r) ==
    IF "qtd_prevista_media" \in DOMAIN r /\ Parsable(r["qtd_prevista_media"])
    THEN Round3(StringToNumber(r["qtd_prevista_media"]))
    ELSE IF "qtd_vendida" \in DOMAIN r
         THEN Round3(StringToNumber(r["qtd_vendida"]))
         ELSE Num(0)

\* C2: the stored quantity of a record comes from qtd_prevista_media when
\* that field is present and parsable, otherwise (absent, empty or
\* unparsable) from qtd_vendida, and is 0 when both are absent.
C2_FallbackPrecedence ==
    Loaded =>
        LET kept == SelectSeq(lastOp.data, KeepRow)
        IN  /\ Len(rows) = Len(kept)
            /\ \A i \in 1..Len(kept) :
                  QtdDecided(kept[i]) =>
                      rows[i].qtd_prevista_media = QtdExpected(kept[i])

\* position of a weekday in the canonical table, from 1
WeekRank(dia) == CHOOSE i \in 1..Len(WeekKeys) : WeekKeys[i] = dia

CanonicalDays(rs) == {rs[i].dia_semana : i \in 1..Len(rs)} \cap Range(WeekKeys)

\* C3: right after a load whose dataset has a record with a canonical
\* weekday, selectedDia is the canonical weekday of lowest rank among those
\* of the dataset.
C3_DefaultDay ==
    (Loaded /\ CanonicalDays(rows) # {}) =>
        /\ selectedDia \in CanonicalDays(rows)
        /\ \A d \in CanonicalDays(rows) : WeekRank(selectedDia) <= WeekRank(d)

\* a load whose file has sábado before segunda selects segunda
C3_Witness ==
    /\ Loaded
    /\ Len(rows) = 2
    /\ rows[1].dia_semana = <<"sábado">>
    /\ rows[2].dia_semana = <<"segunda">>
    /\ selectedDia = <<"segunda">>

\* C4: a parse that fails, by a read error or by a malformed row, leaves
\* the dataset and the selected day as they were.
C4_ParseFailureUnchanged ==
    [][(lastOp'.kind = "error" \/ (lastOp'.kind = "complete" /\ lastOp'.errors))
        => (rows' = rows /\ selectedDia' = selectedDia)]_vars

\* C5: a series of at most 10 records is returned as it is; a longer one
\* gives 11 records, the first 10 of which are its first 10 in order.
C5_TopNBounded ==
    IF Len(dadosPratosDia) <= 10
    THEN piePratosData = dadosPratosDia
    ELSE /\ Len(piePratosData) = 11
         /\ \A i \in 1..10 : piePratosData[i] = dadosPratosDia[i]

C5_Witness == Len(dadosPratosDia) = 12 /\ Len(piePratosData) = 11

\* sum of the quantities of s from position i on
RECURSIVE SumFrom(_, _)
SumFrom(s, i) ==
    IF i > Len(s) THEN Num(0)
    ELSE Add(s[i].qtd_prevista_media, SumFrom(s, i + 1))

\* C6: for a series of more than 10 records the last record of the result
\* is one bucket holding the sum of the quantities from position 11 on,
\* rounded to 3 decimals, with the selected day and an empty level.
C6_OtherBucket ==
    Len(dadosPratosDia) > 10 =>
        LET outros == piePratosData[Len(piePratosData)]
        IN  /\ Len(piePratosData) = 11
            /\ outros.qtd_prevista_media = Round3(SumFrom(dadosPratosDia, 11))
            /\ outros.dia_semana = selectedDia
            /\ outros.nivel_movimento_prato = EmptyStr
            /\ \A i \in 1..10 : piePratosData[i] = dadosPratosDia[i]

\* the bucket is last although it holds more than any of the 10 before it
C6_Witness ==
    /\ Len(dadosPratosDia) = 12
    /\ Len(piePratosData) = 11
    /\ \A i \in 1..10 :
          piePratosData[i].qtd_prevista_media.v < piePratosData[11].qtd_prevista_media.v

RECURSIVE SumQuantidade(_)
SumQuantidade(s) ==
    IF s = << >> THEN 0 ELSE Head(s).quantidade + SumQuantidade(Tail(s))

\* C7: the counts of dadosNivelMovimento add up to the number of records
\* of the dataset.
C7_MovementTotals == SumQuantidade(dadosNivelMovimento) = Len(rows)

\* a < b on numbers; false when either is NaN
Less(a, b) == ~a.nan /\ ~b.nan /\ a.v < b.v

\* C8: the series of the selected day holds exactly the records of that
\* day, by quantity descending, records of equal quantity in dataset
\* order; it is empty for an empty day.
C8_PerDayView ==
    IF selectedDia = EmptyStr THEN dadosPratosDia = << >>
    ELSE LET ofDay == SelectSeq(rows, LAMBDA r : r.dia_semana = selectedDia)
         IN  /\ \A e \in Range(ofDay) \cup Range(dadosPratosDia) :
                   CountIn(dadosPratosDia, e) = CountIn(ofDay, e)
             /\ \A i, j \in 1..Len(dadosPratosDia) :
                   i < j => ~Less(dadosPratosDia[i].qtd_prevista_media,
                                  dadosPratosDia[j].qtd_prevista_media)
             /\ \A e \in Range(ofDay) :
                   ~e.qtd_prevista_media.nan =>
                       SelectSeq(dadosPratosDia,
                                 LAMBDA r : r.qtd_prevista_media = e.qtd_prevista_media)
                       = SelectSeq(ofDay,
                                   LAMBDA r : r.qtd_prevista_media = e.qtd_prevista_media)

\* C9: every stored quantity is a number, is not negative and has at most
\* 3 decimals.
C9_StoredQuantity ==
    \A i \in 1..Len(rows) :
        LET q == rows[i].qtd_prevista_media
        IN  ~q.nan /\ q.v >= 0 /\ Round3(q) = q

\* quantity fields that are all absent, empty or not numbers
NoNumber(r) ==
    \A f \in DOMAIN r \cap {"qtd_prevista_media", "qtd_vendida"} : ~Parsable(r[f])

\* C10: a raw record with a dish and a weekday whose quantity fields are
\* empty or not numbers is in the dataset with quantity 0.
C10_CoercionFallback ==
    Loaded =>
        \A i \in 1..Len(lastOp.data) :
            LET r == lastOp.data[i]
            IN  (HasDishAndWeekday(r) /\ NoNumber(r)) =>
                    \E j \in 1..Len(rows) :
                        /\ rows[j].prato = Trim(r["prato"])
                        /\ rows[j].dia_semana = Trim(r["dia_semana"])
                        /\ rows[j].qtd_prevista_media = Num(0)

\* the selection a dataset gives by itself: its canonical weekday of lowest
\* rank, none when it has no canonical weekday
DayOf(rs) ==
    IF CanonicalDays(rs) = {} THEN EmptyStr
    ELSE CHOOSE d \in CanonicalDays(rs) :
            \A e \in CanonicalDays(rs) : WeekRank(d) <= WeekRank(e)

\* C11: right after a load the dataset is exactly the normalised records of
\* the file of that load; nothing of an earlier dataset remains.
C11_WholesaleReplacement == Loaded => rows = NormalizeData(lastOp.data)

\* a load after one that had selected segunda: only the new file's record
C11_Witness ==
    /\ Loaded
    /\ Len(lastOp.data) = 1
    /\ Len(rows) = 1
    /\ rows[1].dia_semana = <<"domingo">>
    /\ selectedDia = <<"segunda">>

\* a field that holds a string other than the empty one
Carries(r, f) == f \in DOMAIN r /\ Len(r[f]) > 0

LevelExpected(r) ==
    IF Carries(r, "nivel_movimento_prato") THEN Trim(r["nivel_movimento_prato"])
    ELSE IF Carries(r, "nivel_movimento") THEN Trim(r["nivel_movimento"])
    ELSE EmptyStr

\* C12: the stored level of a record is the trimmed nivel_movimento_prato
\* when that field holds a value, otherwise the trimmed nivel_movimento,
\* otherwise the empty string; it is always a (trimmed) string.
C12_MovementLevel ==
    Loaded =>
        LET kept == SelectSeq(lastOp.data, KeepRow)
        IN  /\ Len(rows) = Len(kept)
            /\ \A i \in 1..Len(kept) :
                  /\ rows[i].nivel_movimento_prato = LevelExpected(kept[i])
                  /\ Trim(rows[i].nivel_movimento_prato) = rows[i].nivel_movimento_prato

\* an empty nivel_movimento_prato falls back to the padded nivel_movimento
C12_Witness ==
    /\ Loaded
    /\ Len(lastOp.data) = 1
    /\ Len(rows) = 1
    /\ "nivel_movimento_prato" \in DOMAIN lastOp.data[1]
    /\ lastOp.data[1]["nivel_movimento_prato"] = EmptyStr
    /\ "nivel_movimento" \in DOMAIN lastOp.data[1]
    /\ lastOp.data[1]["nivel_movimento"] = <<"baixo", " ">>
    /\ rows[1].nivel_movimento_prato = <<"baixo">>

\* C13: the day <select> lists each distinct weekday of the dataset exactly
\* once, and the canonical weekdays among them in ascending rank, whatever
\* the other weekdays listed.
C13_DayPickerOrdering ==
    Len(rows) > 0 =>
        \A opts \in DiaOptions(diasDisponiveis) :
            /\ Range(opts) = {rows[i].dia_semana : i \in 1..Len(rows)}
            /\ \A d \in Range(opts) : CountIn(opts, d) = 1
            /\ \A i, j \in 1..Len(opts) :
                  (i < j /\ opts[i] \in Range(WeekKeys) /\ opts[j] \in Range(WeekKeys))
                      => WeekRank(opts[i]) < WeekRank(opts[j])

\* C14: right after a load whose dataset has no canonical weekday (or no
\* record) selectedDia is empty.
C14_NoMatchDefault ==
    (Loaded /\ CanonicalDays(rows) = {}) => selectedDia = EmptyStr

\* C15: whenever the dataset changes, the selected day seen with the new
\* dataset is the one of the same load, never the one held before.
C15_AtomicSwap ==
    [][rows' # rows => selectedDia' = DayOf(rows')]_vars

\* C16: the dataset after a load is the normalised kept raw records in file
\* order, one record each, duplicates included.
C16_OrderAndDuplicates ==
    Loaded =>
        LET data == lastOp.data
            idx == {k \in 1..Len(data) : KeepRow(data[k])}
            at(p) == CHOOSE k \in idx : Cardinality({j \in idx : j <= k}) = p
        IN  /\ Len(rows) = Cardinality(idx)
            /\ \A p \in 1..Len(rows) :
                  /\ rows[p].prato = Trim(data[at(p)]["prato"])
                  /\ rows[p].dia_semana = Trim(data[at(p)]["dia_semana"])
                  /\ rows[p] = MapRow(data[at(p)])

\* a file that holds the same record twice
C16_Witness ==
    /\ Loaded
    /\ Len(lastOp.data) = 2
    /\ lastOp.data[1] = lastOp.data[2]
    /\ Len(rows) = 2
    /\ rows[1] = rows[2]

\* position of a level in [baixo, médio, alto, não definido], 0 outside it
OrdemPos(nivel) ==
    IF nivel \in Range(ordem) THEN CHOOSE i \in 1..Len(ordem) : ordem[i] = nivel ELSE 0

\* C17: the entries of dadosNivelMovimento whose level is in the list are in
\* the order of the list, and every entry whose level is not in the list
\* comes before every entry whose level is.
C17_MovementOrdering ==
    \A i, j \in 1..Len(dadosNivelMovimento) :
        i < j =>
            LET a == dadosNivelMovimento[i].nivel
                b == dadosNivelMovimento[j].nivel
            IN  /\ ~(OrdemPos(a) > 0 /\ OrdemPos(b) = 0)
                /\ (OrdemPos(a) > 0 /\ OrdemPos(b) > 0) => OrdemPos(a) < OrdemPos(b)

\* a level outside the list met after alto in the file is listed before it
C17_Witness ==
    /\ Len(rows) >= 2
    /\ rows[1].nivel_movimento_prato = <<"alto">>
    /\ Len(dadosNivelMovimento) >= 2
    /\ dadosNivelMovimento[1].nivel = <<"raro">>
    /\ dadosNivelMovimento[2].nivel = <<"alto">>

\* C18: dadosNivelMovimento has exactly one entry for each distinct level of
\* the dataset, the empty level giving the entry of the unclassified; so as
\* many entries as distinct levels, none with count 0.
C18_MovementKeys ==
    LET levels == {rows[i].nivel_movimento_prato : i \in 1..Len(rows)}
        key(l) == IF l = EmptyStr THEN NaoDefinido ELSE l
    IN  /\ Len(dadosNivelMovimento) = Cardinality(levels)
        /\ \A l \in levels :
              Cardinality({i \in 1..Len(dadosNivelMovimento) :
                              dadosNivelMovimento[i].nivel = key(l)}) = 1
        /\ \A i \in 1..Len(dadosNivelMovimento) : dadosNivelMovimento[i].quantidade > 0

\* C19: selectedDia is empty or the weekday of some record of the dataset.
C19_SelectionValidity ==
    \/ selectedDia = EmptyStr
    \/ \E i \in 1..Len(rows) : rows[i].dia_semana = selectedDia

\* C20: when two parses were in flight together and the second of them
\* completes right after the first, the dataset and the selected day are
\* both those of the file that completed last.
C20_OverlappingUploads ==
    [][(/\ lastOp.kind = "complete" /\ pending = 1
        /\ lastOp'.kind = "complete" /\ pending' = 0)
        => (/\ rows' = NormalizeData(lastOp'.data)
            /\ selectedDia' = DayOf(rows'))]_vars

\* C21: a manual day selection changes selectedDia and neither the dataset
\* nor the chart type; a chart-type change changes chartType and neither
\* the dataset nor the selected day nor any view; no handler of a control,
\* with the views its render recomputes, changes the records of the dataset
\* or their order; and the movement counts are the same for every selected
\* day.
C21_Frame ==
    [][/\ lastOp'.kind = "user" => (rows' = rows /\ pending' >= pending)
       /\ (lastOp'.kind = "user" /\ selectedDia' # selectedDia)
              => (/\ chartType' = chartType
                  /\ diasDisponiveis' = diasDisponiveis
                  /\ dadosNivelMovimento' = dadosNivelMovimento)
       /\ chartType' # chartType
              => (/\ selectedDia' = selectedDia
                  /\ dadosPratosDia' = dadosPratosDia
                  /\ piePratosData' = piePratosData
                  /\ dadosNivelMovimento' = dadosNivelMovimento)]_vars

\* after a manual selection of terça and a change to the pie chart, on a
\* dataset whose records are not in the order of their quantities
C21_Witness ==
    /\ lastOp.kind = "user"
    /\ chartType = "pie"
    /\ selectedDia = <<"terça">>
    /\ Len(rows) >= 2
    /\ rows[1].dia_semana = <<"segunda">>
    /\ Less(rows[1].qtd_prevista_media, rows[2].qtd_prevista_media)
    /\ Len(dadosPratosDia) >= 1
    /\ Len(dadosNivelMovimento) >= 2

====
